---- MODULE Spec2Model ----
(***************************************************************************)
(* The election outcome engine: a vote table held by the data source, two  *)
(* Election objects over it (First Past The Post and Proportional          *)
(* Representation, D'Hondt), the canonical result sort and the recursive   *)
(* coalition search.                                                       *)
(*                                                                         *)
(* A results mapping (a Python dict, insertion ordered) is a sequence of   *)
(* records [party, seats]; a vote matrix is a sequence of rows, each a     *)
(* sequence of vote counts aligned with the party list.                    *)
(***************************************************************************)
EXTENDS Integers, Sequences, FiniteSets, TLC

VARIABLES
    columns,    \* the party columns of the election's table, in storage order
    table,      \* the table's rows: [region, votes], votes aligned with columns
    el,         \* the Election objects, by instance
    last,       \* the outcome of the last call: [op, on, args, raised, ret, steps]
    completed,  \* history: the calculations of each instance that have completed
    open        \* the database connections and cursors that are open

vars == <<columns, table, el, last, completed, open>>

----------------------------------------------------------------------------
(* Bounds *)

\* rows and largest cell of the tables First Past The Post is checked on
MaxRows == 2
MaxVote == 1
\* rows and largest cell of the tables the D'Hondt allocation is checked on
PrRows == 2
PrVote == 1
\* seats and largest party total of the tables that hold each party's whole
\* vote in their first row
PrSeats == 4
PrTotal == 4
\* rows of one region and largest party total in one region
RegionRows == 2
RegionVote == 1
\* largest seat count of a results mapping handed to the coalition search
MaxSeats == 4
\* largest maximum_coalition_size tried by the coalition search
MaxCap == 3
\* rows of the tables the data source is queried on, the test tables aside
DataRows == 1

Regions == {"Region1", "Region2"}
ElectionIds == {"fptp", "pr"}
None == "None"

BY_REGION == "By Region"
ENTIRE_ELECTORATE == "Entire Electorate"
MethodForPR == {BY_REGION, ENTIRE_ELECTORATE}

NotCalculatedError == "NotCalculatedError"
DatabaseError == "sqlite3.Error"
NoError == "none"

----------------------------------------------------------------------------
(* Sequence helpers *)

Range(s) == {s[i] : i \in 1..Len(s)}

RECURSIVE SumSeq(_)
SumSeq(s) == IF s = <<>> THEN 0 ELSE Head(s) + SumSeq(Tail(s))

RECURSIVE Concat(_)
Concat(ss) == IF ss = <<>> THEN <<>> ELSE Head(ss) \o Concat(Tail(ss))

RECURSIVE Perms(_)
Perms(S) ==
    IF S = {} THEN {<<>>}
    ELSE UNION {{<<x>> \o p : p \in Perms(S \ {x})} : x \in S}

\* dict.items() / dict.values() / key lookup on a results mapping
Keys(results) == {results[i].party : i \in 1..Len(results)}
Values(results) == [i \in 1..Len(results) |-> results[i].seats]
Lookup(results, p) ==
    IF p \in Keys(results)
    THEN (CHOOSE i \in 1..Len(results) : results[i].party = p)
    ELSE 0
Get(results, p) == IF p \in Keys(results) THEN results[Lookup(results, p)].seats ELSE 0

\* dict(zip(parties, seats))
DictZip(parties, seats) ==
    [i \in 1..(IF Len(parties) < Len(seats) THEN Len(parties) ELSE Len(seats))
        |-> [party |-> parties[i], seats |-> seats[i]]]

\* sorted(items, key=..., reverse=True): stable, descending by key.
\* keyed is a sequence of [key, item]; an element goes after every element
\* whose key is at least its own.
RECURSIVE InsertDesc(_, _)
InsertDesc(sorted, x) ==
    IF sorted = <<>> THEN <<x>>
    ELSE IF Head(sorted).key >= x.key
         THEN <<Head(sorted)>> \o InsertDesc(Tail(sorted), x)
         ELSE <<x>> \o sorted

RECURSIVE SortedDescFrom(_, _)
SortedDescFrom(acc, keyed) ==
    IF keyed = <<>> THEN acc
    ELSE SortedDescFrom(InsertDesc(acc, Head(keyed)), Tail(keyed))

SortedReverse(keyed) ==
    LET s == SortedDescFrom(<<>>, keyed)
    IN  [i \in 1..Len(s) |-> s[i].item]

----------------------------------------------------------------------------
(* Election.sort_results *)

\* a sort key that treats "Other" like every party
sort_parties_plain(item) == item.seats

sort_parties(item) == IF item.party # "Other" THEN item.seats ELSE -1

sort_results(results) ==
    SortedReverse([i \in 1..Len(results) |->
        [key |-> sort_parties(results[i]), item |-> results[i]]])

----------------------------------------------------------------------------
(* DatabaseElectionData *)

\* the step of one query that raises: sqlite3.connect, cursor.execute or
\* cursor.fetchall (Connection.cursor and the two close calls do not raise on
\* a connection that has just been opened)
QueryFaults == {"connect", "execute", "fetchall"}
NoFault == "no fault"

\* a context manager without try/finally: an error in the with block skips
\* the two close calls
connect_to_database_unprotected(fault) ==
    [connects      |-> IF fault = "connect" THEN 0 ELSE 1,
     cursors       |-> IF fault = "connect" THEN 0 ELSE 1,
     cursor_closes |-> IF fault = NoFault THEN 1 ELSE 0,
     conn_closes   |-> IF fault = NoFault THEN 1 ELSE 0,
     raised        |-> IF fault = NoFault THEN NoError ELSE DatabaseError]

\* _connect_to_database around the with block of one query: what was opened
\* and closed when the block is left, normally or by the error `fault`
connect_to_database(fault) ==
    [connects      |-> IF fault = "connect" THEN 0 ELSE 1,
     cursors       |-> IF fault = "connect" THEN 0 ELSE 1,
     cursor_closes |-> IF fault = "connect" THEN 0 ELSE 1,
     conn_closes   |-> IF fault = "connect" THEN 0 ELSE 1,
     raised        |-> IF fault = NoFault THEN NoError ELSE DatabaseError]

\* _execute_query: the with block runs execute and fetchall on the cursor
execute_query(fault) == connect_to_database(fault)

\* the queries of one call run one after the other until one raises: either
\* all n succeed or the k-th is the first and last to fail
FaultPlans(n) ==
    {[i \in 1..n |-> NoFault]}
        \cup {[i \in 1..k |-> IF i < k THEN NoFault ELSE fault] :
                    k \in 1..n, fault \in QueryFaults}

RunQueries(plan) == [i \in 1..Len(plan) |-> execute_query(plan[i])]

RaisedBy(log) == IF log = <<>> THEN NoError ELSE log[Len(log)].raised

\* the connections and cursors open once the queries of `log` are over
StillOpen(before, log) ==
    [connections |-> before.connections
                        + SumSeq([i \in 1..Len(log) |-> log[i].connects - log[i].conn_closes]),
     cursors     |-> before.cursors
                        + SumSeq([i \in 1..Len(log) |-> log[i].cursors - log[i].cursor_closes])]

RECURSIVE SelectSeq2(_, _)
SelectSeq2(s, keep) ==
    IF s = <<>> THEN <<>>
    ELSE (IF Head(s) \in keep THEN <<Head(s)>> ELSE <<>>) \o SelectSeq2(Tail(s), keep)

\* a column selection that does not look at ignore_other
get_party_columns_all(ignore_other) == [i \in 1..Len(columns) |-> i]

\* _get_party_columns: the indexes of the party columns that are selected
get_party_columns(ignore_other) ==
    LET all == [i \in 1..Len(columns) |-> i]
    IN  IF ignore_other /\ "Other" \in Range(columns)
        THEN SelectSeq2(all, {i \in 1..Len(columns) : columns[i] # "Other"})
        ELSE all

\* get_regions: SELECT DISTINCT, in an order the database chooses
DistinctRegions == {table[r].region : r \in 1..Len(table)}

\* a NULL cell of the table (a party that did not stand in the constituency)
Null == -1

\* np.array(result, dtype=np.float64) then np.nan_to_num(votes, nan=0), one cell
NanToNum(cell) == IF cell = Null THEN 0 ELSE cell

\* get_vote_data without the reset of party_columns on an empty result
get_vote_data_keeps_columns(region, ignore_other) ==
    LET party_columns == get_party_columns(ignore_other)
        rows   == IF region = None
                  THEN [r \in 1..Len(table) |-> r]
                  ELSE SelectSeq2([r \in 1..Len(table) |-> r],
                                  {r \in 1..Len(table) : table[r].region = region})
    IN  [parties |-> [c \in 1..Len(party_columns) |-> columns[party_columns[c]]],
         votes   |-> [k \in 1..Len(rows) |->
                        [c \in 1..Len(party_columns) |->
                            NanToNum(table[rows[k]].votes[party_columns[c]])]]]

\* get_vote_data: [parties, votes]
get_vote_data(region, ignore_other) ==
    LET party_columns == get_party_columns(ignore_other)
        rows   == IF region = None
                  THEN [r \in 1..Len(table) |-> r]
                  ELSE SelectSeq2([r \in 1..Len(table) |-> r],
                                  {r \in 1..Len(table) : table[r].region = region})
        result == [k \in 1..Len(rows) |->
                     [c \in 1..Len(party_columns) |->
                         NanToNum(table[rows[k]].votes[party_columns[c]])]]
        kept   == IF result = <<>> THEN <<>> ELSE party_columns
    IN  [parties |-> [c \in 1..Len(kept) |-> columns[kept[c]]],
         votes   |-> result]

----------------------------------------------------------------------------
(* FirstPastThePost._calculate_results *)

\* votes.max(axis=1, initial=0), one row
RowMax(row) == CHOOSE m \in Range(row) \cup {0} : \A x \in Range(row) \cup {0} : m >= x

\* a count that credits only the first party to reach the row's maximum
FlagsSum_first_winner(votes, c) ==
    Cardinality({r \in 1..Len(votes) :
        /\ votes[r][c] = RowMax(votes[r])
        /\ \A b \in 1..(c - 1) : votes[r][b] # RowMax(votes[r])})

\* winning_party_flags.sum(axis=0), one column
FlagsSum(votes, c) == Cardinality({r \in 1..Len(votes) : votes[r][c] = RowMax(votes[r])})

fptp_calculate_results(data) ==
    LET parties == data.parties
        votes   == data.votes
        parties_seats == DictZip(parties, [c \in 1..Len(parties) |-> FlagsSum(votes, c)])
    IN  sort_results(parties_seats)

----------------------------------------------------------------------------
(* ProportionalRepresentation._compute_seats_by_pr *)

\* np.sum(votes, axis=0)
PartyTotals(parties, votes) ==
    [c \in 1..Len(parties) |-> SumSeq([r \in 1..Len(votes) |-> votes[r][c]])]

\* A heap entry is the tuple (votes_per_seat, party); votes_per_seat is the
\* negated quotient n / d, kept exact as a numerator n <= 0 and a divisor d > 0.
HeapEntry(n, d, party) == [n |-> n, d |-> d, party |-> party]

\* a comparison of the quotients without their negation
EntryLess_not_negated(a, b) ==
    \/ a.n * b.d > b.n * a.d
    \/ a.n * b.d = b.n * a.d /\ a.party < b.party

\* tuple comparison a < b: first the quotients, then the party index
EntryLess(a, b) ==
    \/ a.n * b.d < b.n * a.d
    \/ a.n * b.d = b.n * a.d /\ a.party < b.party

\* heapq.heappop: the smallest entry of the heap
HeapMin(heap) == CHOOSE a \in heap : \A b \in heap \ {a} : EntryLess(a, b)

\* a divisor of awarded_seats instead of awarded_seats + 1
NextQuotient_no_plus_one(total, obtained, party) == HeapEntry(-total, obtained, party)

\* the quotient pushed back after a seat is awarded
NextQuotient(total, obtained, party) == HeapEntry(-total, obtained + 1, party)

RECURSIVE AllocateSeats(_, _, _, _)
AllocateSeats(party_totals, heap, obtained_seats, remaining) ==
    IF remaining = 0 THEN obtained_seats
    ELSE LET top   == HeapMin(heap)
             party == top.party
             seats == [obtained_seats EXCEPT ![party] = @ + 1]
         IN  AllocateSeats(party_totals,
                           (heap \ {top}) \cup
                               {NextQuotient(party_totals[party], seats[party], party)},
                           seats, remaining - 1)

\* an allocation of as many seats as the matrix has columns
compute_seats_by_pr_columns(parties, votes) ==
    LET total_seats  == Len(parties)
        party_totals == PartyTotals(parties, votes)
        obtained     == [c \in 1..Len(parties) |-> 0]
        heap         == {HeapEntry(-party_totals[c], 1, c) : c \in 1..Len(parties)}
    IN  DictZip(parties, AllocateSeats(party_totals, heap, obtained, total_seats))

compute_seats_by_pr(parties, votes) ==
    LET total_seats  == Len(votes)
        party_totals == PartyTotals(parties, votes)
        obtained     == [c \in 1..Len(parties) |-> 0]
        heap         == {HeapEntry(-party_totals[c], 1, c) : c \in 1..Len(parties)}
    IN  DictZip(parties, AllocateSeats(party_totals, heap, obtained, total_seats))

----------------------------------------------------------------------------
(* ProportionalRepresentation._calculate_entire_electorate / _calculate_by_region *)

calculate_entire_electorate(ignore_other) ==
    LET data == get_vote_data(None, ignore_other)
    IN  sort_results(compute_seats_by_pr(data.parties, data.votes))

\* an addition that keeps every key, whatever its sum
CounterAdd_keeps_zeros(self, other) ==
    [i \in 1..Len(self) |->
        [party |-> self[i].party, seats |-> self[i].seats + Get(other, self[i].party)]]
    \o SelectSeq(other, LAMBDA x : x.party \notin Keys(self))

\* dict.update in place of Counter addition: other's counts replace self's
CounterAdd_update(self, other) ==
    LET fromSelf  == [i \in 1..Len(self) |->
                        [party |-> self[i].party,
                         seats |-> IF self[i].party \in Keys(other)
                                   THEN Get(other, self[i].party)
                                   ELSE self[i].seats]]
        keptSelf  == SelectSeq(fromSelf, LAMBDA x : x.seats > 0)
        keptOther == SelectSeq(other, LAMBDA x : x.party \notin Keys(self) /\ x.seats > 0)
    IN  keptSelf \o keptOther

\* Counter.__add__: the sums that are positive, self's keys first, then
\* other's keys that self lacks
CounterAdd(self, other) ==
    LET fromSelf  == [i \in 1..Len(self) |->
                        [party |-> self[i].party,
                         seats |-> self[i].seats + Get(other, self[i].party)]]
        keptSelf  == SelectSeq(fromSelf, LAMBDA x : x.seats > 0)
        keptOther == SelectSeq(other, LAMBDA x : x.party \notin Keys(self) /\ x.seats > 0)
    IN  keptSelf \o keptOther

\* sum(counters, Counter())
RECURSIVE CounterSum(_, _)
CounterSum(acc, counters) ==
    IF counters = <<>> THEN acc
    ELSE CounterSum(CounterAdd(acc, Head(counters)), Tail(counters))

\* the per-region allocations, regions in the order get_regions returned them
RegionSeats(regions, ignore_other) ==
    [k \in 1..Len(regions) |->
        LET data == get_vote_data(regions[k], ignore_other)
        IN  compute_seats_by_pr(data.parties, data.votes)]

calculate_by_region(regions, ignore_other) ==
    sort_results(CounterSum(<<>>, RegionSeats(regions, ignore_other)))

pr_calculate_results(pr_method, regions, ignore_other) ==
    IF pr_method = BY_REGION
    THEN calculate_by_region(regions, ignore_other)
    ELSE calculate_entire_electorate(ignore_other)

----------------------------------------------------------------------------
(* Election._calculate_coalitions / _find_valid_coalitions_recursive *)

\* math.ceil(total / 2): half of the seats instead of a majority
SeatTarget_half(total) == IF total % 2 = 0 THEN total \div 2 ELSE total \div 2 + 1

\* math.ceil((total + 1) / 2)
SeatTarget(total) == IF (total + 1) % 2 = 0 THEN (total + 1) \div 2 ELSE (total + 1) \div 2 + 1

\* a recursion that hands on every other party (remaining_parties without
\* the chosen item) instead of the parties after it
RECURSIVE find_valid_coalitions_recursive_permuting(_, _, _, _)
find_valid_coalitions_recursive_permuting(remaining_parties, seat_target, current_selection, cap) ==
    IF SumSeq([i \in 1..Len(current_selection) |-> current_selection[i].seats]) >= seat_target
    THEN <<[i \in 1..Len(current_selection) |-> current_selection[i].party]>>
    ELSE IF Len(current_selection) + 1 > cap
    THEN <<>>
    ELSE Concat([index \in 1..Len(remaining_parties) |->
            find_valid_coalitions_recursive_permuting(
                SubSeq(remaining_parties, 1, index - 1)
                    \o SubSeq(remaining_parties, index + 1, Len(remaining_parties)),
                seat_target, Append(current_selection, remaining_parties[index]), cap)])

RECURSIVE find_valid_coalitions_recursive(_, _, _, _)
find_valid_coalitions_recursive(remaining_parties, seat_target, current_selection, cap) ==
    IF SumSeq([i \in 1..Len(current_selection) |-> current_selection[i].seats]) >= seat_target
    THEN <<[i \in 1..Len(current_selection) |-> current_selection[i].party]>>
    ELSE IF Len(current_selection) + 1 > cap
    THEN <<>>
    ELSE Concat([index \in 1..Len(remaining_parties) |->
            find_valid_coalitions_recursive(
                SubSeq(remaining_parties, index + 1, Len(remaining_parties)),
                seat_target,
                Append(current_selection, remaining_parties[index]),
                cap)])

\* the parties by descending seat count, equal counts in results order
\* the sort without reverse=True: smallest party first
SortedList_ascending(results) ==
    LET desc == SortedReverse([i \in 1..Len(results) |->
                    [key |-> results[i].seats, item |-> results[i]]])
    IN  [i \in 1..Len(desc) |-> desc[Len(desc) + 1 - i]]

\* the search run over the results mapping as it stands, without the sort
SortedList_unsorted(results) == results

SortedList(results) ==
    SortedReverse([i \in 1..Len(results) |->
        [key |-> results[i].seats, item |-> results[i]]])

\* a size check that lets one party too many in: len(current_selection) > cap
find_coalitions_loose_cap(results, cap) ==
    find_valid_coalitions_recursive(SortedList(results), SeatTarget(SumSeq(Values(results))),
                                    <<>>, cap + 1)

\* a size check that stops one party early: len(current_selection) + 1 >= cap
find_coalitions_tight_cap(results, cap) ==
    find_valid_coalitions_recursive(SortedList(results), SeatTarget(SumSeq(Values(results))),
                                    <<>>, cap - 1)

find_coalitions(results, cap) ==
    LET total       == SumSeq(Values(results))
        sorted_list == SortedList(results)
        seat_target == SeatTarget(total)
    IN  find_valid_coalitions_recursive(sorted_list, seat_target, <<>>, cap)


----------------------------------------------------------------------------
(* Election: construction, accessors and calculations.  Each operation maps *)
(* the object to [self, raised, ret]: the object afterwards, the exception *)
(* that reached the caller and the value returned.                         *)

DefaultCap == 3

Election(kind, maximum_coalition_size, pr_method, ignore_other) ==
    [kind                   |-> kind,
     maximum_coalition_size |-> maximum_coalition_size,
     pr_method              |-> pr_method,
     ignore_other           |-> ignore_other,
     results                |-> <<>>,
     results_calculated     |-> FALSE,
     coalitions             |-> <<>>,
     coalitions_calculated  |-> FALSE]

Outcome(self, raised, ret, done) ==
    [self |-> self, raised |-> raised, ret |-> ret, done |-> done]

\* a results accessor that returns the stored default instead of raising
results_default(self) == Outcome(self, NoError, self.results, <<>>)

results(self) ==
    IF ~self.results_calculated
    THEN Outcome(self, NotCalculatedError, <<>>, <<>>)
    ELSE Outcome(self, NoError, self.results, <<>>)

\* an accessor that computes and stores the coalitions on first use
coalitions_lazy(self) ==
    IF self.coalitions_calculated
    THEN Outcome(self, NoError, self.coalitions, <<>>)
    ELSE IF ~self.results_calculated
    THEN Outcome(self, NotCalculatedError, <<>>, <<>>)
    ELSE LET found == find_coalitions(self.results, self.maximum_coalition_size)
         IN  Outcome([self EXCEPT !.coalitions = found, !.coalitions_calculated = TRUE],
                     NoError, found, <<>>)

coalitions(self) ==
    IF ~self.coalitions_calculated
    THEN Outcome(self, NotCalculatedError, <<>>, <<>>)
    ELSE Outcome(self, NoError, self.coalitions, <<>>)

\* the subclass's _calculate_results, over the data source the constructor
\* stored (self.vote_data in base_election.py and fptp.py, named
\* self.data_retriever in pr.py)
\* the election of the base-class tests: its _calculate_results is an
\* attribute the test patches with a function returning a fixed mapping
ConcreteElection(maximum_coalition_size, patched_results) ==
    [kind                   |-> "concrete",
     maximum_coalition_size |-> maximum_coalition_size,
     pr_method              |-> None,
     ignore_other           |-> FALSE,
     patched_results        |-> patched_results,
     results                |-> <<>>,
     results_calculated     |-> FALSE,
     coalitions             |-> <<>>,
     coalitions_calculated  |-> FALSE]

SubclassResults(self, regions) ==
    CASE self.kind = "fptp"     -> fptp_calculate_results(get_vote_data(None, FALSE))
      [] self.kind = "pr"       -> pr_calculate_results(self.pr_method, regions, self.ignore_other)
      [] self.kind = "concrete" -> self.patched_results

\* a calculate_results that sets its flag before it asks the data source
calculate_results_flag_first(self, dbOk, regions) ==
    IF ~dbOk
    THEN Outcome([self EXCEPT !.results_calculated = TRUE], DatabaseError, <<>>, <<>>)
    ELSE Outcome([self EXCEPT !.results = SubclassResults(self, regions),
                              !.results_calculated = TRUE],
                 NoError, <<>>, <<"calculate_results">>)

\* a calculate_results that withdraws the coalitions of the former results
calculate_results_invalidating(self, dbOk, regions) ==
    IF ~dbOk
    THEN Outcome(self, DatabaseError, <<>>, <<>>)
    ELSE Outcome([self EXCEPT !.results = SubclassResults(self, regions),
                              !.results_calculated = TRUE,
                              !.coalitions = <<>>,
                              !.coalitions_calculated = FALSE],
                 NoError, <<>>, <<"calculate_results">>)

\* dbOk: whether the data source's queries succeed; regions: the order in
\* which get_regions lists the regions
calculate_results(self, dbOk, regions) ==
    IF ~dbOk
    THEN Outcome(self, DatabaseError, <<>>, <<>>)
    ELSE Outcome([self EXCEPT !.results = SubclassResults(self, regions),
                              !.results_calculated = TRUE],
                 NoError, <<>>, <<"calculate_results">>)

\* calculate_coalitions without the check that the results are ready
calculate_coalitions_unguarded(self) ==
    Outcome([self EXCEPT !.coalitions =
                             find_coalitions(self.results, self.maximum_coalition_size),
                         !.coalitions_calculated = TRUE],
            NoError, <<>>, <<"calculate_coalitions">>)

calculate_coalitions(self) ==
    IF ~self.results_calculated
    THEN Outcome(self, NotCalculatedError, <<>>, <<>>)
    ELSE Outcome([self EXCEPT !.coalitions =
                                  find_coalitions(self.results, self.maximum_coalition_size),
                              !.coalitions_calculated = TRUE],
                 NoError, <<>>, <<"calculate_coalitions">>)

\* the two calculations in the other order
calculate_all_coalitions_first(self, dbOk, regions) ==
    LET first == calculate_coalitions(self)
        then  == calculate_results(first.self, dbOk, regions)
    IN  IF first.raised # NoError
        THEN first
        ELSE Outcome(then.self, then.raised, then.ret, first.done \o then.done)

calculate_all(self, dbOk, regions) ==
    LET first == calculate_results(self, dbOk, regions)
        then  == calculate_coalitions(first.self)
    IN  IF first.raised # NoError
        THEN first
        ELSE Outcome(then.self, then.raised, then.ret, first.done \o then.done)

----------------------------------------------------------------------------
(* Actions: one call on one Election instance *)

RegionOrders(e) ==
    IF el[e].kind = "pr" /\ el[e].pr_method = BY_REGION
    THEN Perms(DistinctRegions)
    ELSE {<<>>}

\* results kept in an attribute of the class: a call on one instance writes
\* the results of every instance
Call_class_attribute(e, op, out) ==
    /\ el' = [x \in DOMAIN el |->
                IF x = e THEN out.self
                ELSE [el[x] EXCEPT !.results = out.self.results,
                                   !.results_calculated = out.self.results_calculated]]
    /\ last' = [op |-> op, on |-> e, args |-> <<>>, raised |-> out.raised,
                ret |-> out.ret, steps |-> out.done]
    /\ completed' = [completed EXCEPT ![e] = @ \cup Range(out.done)]
    /\ open' = open
    /\ UNCHANGED <<columns, table>>

\* a call that raised the database's error had one of its queries fail
FaultsBehind(raised) == IF raised = DatabaseError THEN QueryFaults ELSE {NoFault}

Call(e, op, out) ==
    /\ el' = [el EXCEPT ![e] = out.self]
    /\ last' = [op |-> op, on |-> e, args |-> <<>>, raised |-> out.raised,
                ret |-> out.ret, steps |-> out.done]
    /\ completed' = [completed EXCEPT ![e] = @ \cup Range(out.done)]
    /\ open' \in {StillOpen(open, <<execute_query(fault)>>) : fault \in FaultsBehind(out.raised)}
    /\ UNCHANGED <<columns, table>>

ReadResults(e) == Call(e, "results", results(el[e]))

ReadCoalitions(e) == Call(e, "coalitions", coalitions(el[e]))

\* the patched function of the test election reads no database
DatabaseAnswers(e) == IF el[e].kind = "concrete" THEN {TRUE} ELSE BOOLEAN

CalculateResults(e) ==
    \E dbOk \in DatabaseAnswers(e), regions \in RegionOrders(e) :
        Call(e, "calculate_results", calculate_results(el[e], dbOk, regions))

CalculateCoalitions(e) ==
    Call(e, "calculate_coalitions", calculate_coalitions(el[e]))

CalculateAll(e) ==
    \E dbOk \in BOOLEAN, regions \in RegionOrders(e) :
        Call(e, "calculate_all", calculate_all(el[e], dbOk, regions))

\* ---- calls on the data source itself (test_database.py)

ElectionName == "election"

DataCall(op, args, log, ret) ==
    /\ last' = [op |-> op, on |-> None, args |-> args, raised |-> RaisedBy(log),
                ret |-> IF RaisedBy(log) = NoError THEN ret ELSE <<>>, steps |-> log]
    /\ open' = StillOpen(open, log)
    /\ UNCHANGED <<columns, table, el, completed>>

GetElections ==
    \E plan \in FaultPlans(1) :
        DataCall("get_elections", <<>>, RunQueries(plan), <<ElectionName>>)

GetRegions ==
    \E plan \in FaultPlans(1), order \in Perms(DistinctRegions) :
        DataCall("get_regions", <<ElectionName>>, RunQueries(plan), order)

\* the regions a caller may ask for: none, one of the table's, or another
RegionArguments == {None} \cup Regions \cup {"Does not exist"}

GetVoteData ==
    \E region \in RegionArguments, ignore_other \in BOOLEAN, plan \in FaultPlans(2) :
        DataCall("get_vote_data", [region |-> region, ignore_other |-> ignore_other],
                 RunQueries(plan), get_vote_data(region, ignore_other))

----------------------------------------------------------------------------
(* Initial states *)

WithOther == <<"Party1", "Party2", "Other">>
WithoutOther == <<"Party1", "Party2", "Party3">>
FourParties == <<"Party1", "Party2", "Party3", "Party4">>
FourWithOther == <<"Party1", "Other", "Party2", "Party3">>

TableRows(ncols, regions, maxVote) == [region : regions, votes : [1..ncols -> 0..maxVote]]

\* the tables of 1..maxRows constituencies
Tables(ncols, regions, maxRows, maxVote) ==
    UNION {[1..n -> TableRows(ncols, regions, maxVote)] : n \in 1..maxRows}

\* a block of `rows` constituencies of one region: every party's votes in the
\* first, none in the others (the matrices of test_pr.py:50-57 and 72-86)
Block(region, rows, totals) ==
    [r \in 1..rows |->
        [region |-> region,
         votes  |-> IF r = 1 THEN totals ELSE [c \in 1..Len(totals) |-> 0]]]

Blocks(ncols, region, maxRows, maxTotal) ==
    {Block(region, rows, totals) : rows \in 1..maxRows, totals \in [1..ncols -> 0..maxTotal]}

\* no call yet, nothing connected
Constructor ==
    [op |-> "init", on |-> None, args |-> <<>>, raised |-> NoError, ret |-> <<>>, steps |-> <<>>]
NoneOpen == [connections |-> 0, cursors |-> 0]

\* the session after both Election objects are constructed
Constructed(caps, methods, ignores) ==
    /\ \E cap \in caps, m \in methods, io \in ignores :
          el = [fptp |-> Election("fptp", cap, None, FALSE),
                pr   |-> Election("pr", cap, m, io)]
    /\ last = Constructor
    /\ completed = [e \in ElectionIds |-> {}]
    /\ open = NoneOpen

\* Session tables: the repository's test matrices over three party columns
\* (test_fptp.py:41-48 and 61-64, test_pr.py:50-57 and 72-86), the constituencies
\* spread over two regions
DrawTable ==
    <<[region |-> "Region1", votes |-> <<99, 1, 0>>],
      [region |-> "Region2", votes |-> <<99, 99, 0>>]>>
ElectorateTable ==
    <<[region |-> "Region1", votes |-> <<50, 100, 200>>],
      [region |-> "Region1", votes |-> <<0, 0, 0>>],
      [region |-> "Region2", votes |-> <<0, 0, 0>>]>>
RegionTable ==
    <<[region |-> "Region1", votes |-> <<999, 0, 0>>],
      [region |-> "Region1", votes |-> <<0, 0, 0>>],
      [region |-> "Region2", votes |-> <<0, 1, 1>>]>>
PluralityTable ==
    <<[region |-> "Region2", votes |-> <<1, 99, 1>>],
      [region |-> "Region1", votes |-> <<1, 1, 99>>],
      [region |-> "Region2", votes |-> <<1, 99, 1>>]>>
UncontestedTable ==
    <<[region |-> "Region1", votes |-> <<Null, 99, 1>>],
      [region |-> "Region2", votes |-> <<Null, Null, Null>>]>>
SessionTables == {DrawTable, ElectorateTable, RegionTable, PluralityTable, UncontestedTable}

\* A session: both elections over one table, every call in every order
Init ==
    /\ columns \in {WithOther, WithoutOther}
    /\ table \in SessionTables
    /\ Constructed({DefaultCap}, MethodForPR, BOOLEAN)

Next ==
    \E e \in ElectionIds :
        \/ CalculateResults(e)
        \/ CalculateCoalitions(e)
        \/ CalculateAll(e)
        \/ ReadResults(e)
        \/ ReadCoalitions(e)

Spec == Init /\ [][Next]_vars

\* First Past The Post over every table within the bounds
InitFPTP ==
    /\ columns \in {WithOther}
    /\ table \in Tables(Len(columns), {"Region1"}, MaxRows, MaxVote)
    /\ Constructed({DefaultCap}, {ENTIRE_ELECTORATE}, {FALSE})

NextFPTP == CalculateResults("fptp")

SpecFPTP == InitFPTP /\ [][NextFPTP]_vars

\* D'Hondt over the entire electorate: every table within the bounds, and
\* every block of one region within the larger ones
InitDHondt ==
    /\ columns \in {WithoutOther}
    /\ table \in Tables(Len(columns), {"Region1"}, PrRows, PrVote)
                    \cup Blocks(Len(columns), "Region1", PrSeats, PrTotal)
    /\ Constructed({DefaultCap}, {ENTIRE_ELECTORATE}, {FALSE})

NextDHondt == CalculateResults("pr")

SpecDHondt == InitDHondt /\ [][NextDHondt]_vars

\* D'Hondt by region: one region, or two in either order, each a block
\* within the bounds
InitRegion ==
    /\ columns \in {WithOther}
    /\ \E first \in Regions :
          \E a \in Blocks(Len(columns), first, RegionRows, RegionVote) :
             \/ table = a
             \/ \E second \in Regions \ {first} :
                   \E b \in Blocks(Len(columns), second, RegionRows, RegionVote) :
                      table = a \o b
    /\ Constructed({DefaultCap}, MethodForPR, BOOLEAN)

NextRegion == CalculateResults("pr")

SpecRegion == InitRegion /\ [][NextRegion]_vars

\* ---- the base class on its own: the election of test_base_election.py,
\* whose data source answers nothing and whose allocator is patched
PatchedMappings ==
    {DictZip(parties, seats) :
        parties \in {FourParties, FourWithOther},
        seats \in [1..Len(FourParties) -> 0..MaxSeats]}

InitBase ==
    /\ columns = <<>>
    /\ table = <<>>
    /\ \E patched \in PatchedMappings :
          el = [concrete |-> ConcreteElection(DefaultCap, patched)]
    /\ last = Constructor
    /\ completed = [e \in {"concrete"} |-> {}]
    /\ open = NoneOpen

NextBase ==
    \/ CalculateResults("concrete")
    \/ ReadResults("concrete")

SpecBase == InitBase /\ [][NextBase]_vars

\* ---- recomputation: the database file is rebuilt between two calls of one
\* First Past The Post election (database_from_xlsx.py writes the tables)
ReplaceTable ==
    /\ table' \in SessionTables \ {table}
    /\ last' = [Constructor EXCEPT !.op = "create_database"]
    /\ UNCHANGED <<columns, el, completed, open>>

InitRecompute ==
    /\ columns = WithoutOther
    /\ table \in SessionTables
    /\ Constructed({DefaultCap}, {ENTIRE_ELECTORATE}, {FALSE})

NextRecompute ==
    \/ CalculateResults("fptp")
    \/ CalculateCoalitions("fptp")
    \/ CalculateAll("fptp")
    \/ ReadResults("fptp")
    \/ ReadCoalitions("fptp")
    \/ ReplaceTable

SpecRecompute == InitRecompute /\ [][NextRecompute]_vars

\* ---- the data source on its own: every table of up to DataRows
\* constituencies over two regions, a party standing in a constituency or
\* not, and the test tables of the session
OtherInside == <<"Party1", "Other", "Party2">>
DataCells == {Null, 1}

InitData ==
    /\ columns \in {WithOther, WithoutOther, OtherInside}
    /\ table \in SessionTables \cup
                 UNION {[1..n -> [region : Regions, votes : [1..Len(columns) -> DataCells]]] :
                            n \in 1..DataRows}
    /\ Constructed({DefaultCap}, {ENTIRE_ELECTORATE}, {FALSE})

NextData ==
    \/ GetElections
    \/ GetRegions
    \/ GetVoteData

SpecData == InitData /\ [][NextData]_vars

\* The coalition search over every seat distribution within the bounds.  The
\* table gives party c a plurality, shared or not, in exactly seats[c]
\* constituencies, so calculate_results stores that distribution.
TableFor(seats) ==
    [r \in 1..RowMax(seats) |->
        [region |-> "Region1",
         votes  |-> [c \in 1..Len(seats) |-> IF seats[c] >= r THEN 1 ELSE 0]]]

InitCoalition ==
    /\ columns \in {FourParties, FourWithOther}
    /\ \E seats \in [1..Len(columns) -> 0..MaxSeats] :
          /\ \E c \in 1..Len(columns) : seats[c] > 0
          /\ table = TableFor(seats)
    /\ Constructed(1..MaxCap, {ENTIRE_ELECTORATE}, {FALSE})

NextCoalition ==
    \/ CalculateResults("fptp")
    \/ CalculateCoalitions("fptp")
    \/ ReadCoalitions("fptp")

SpecCoalition == InitCoalition /\ [][NextCoalition]_vars

----------------------------------------------------------------------------
(* Properties of the Election state machine *)

\* C1: reading `results` raises NotCalculatedError exactly when no
\* calculate_results call of that instance has completed, reading `coalitions`
\* raises it exactly when no calculate_coalitions call has completed (also when
\* the results are ready); a read that does not raise returns the stored value,
\* and no flag is ever set other than by its completed calculation (no default
\* value, no lazy computation).
C1_AccessorsRaiseUntilCalculated ==
    /\ \A e \in ElectionIds :
          /\ el[e].results_calculated <=> "calculate_results" \in completed[e]
          /\ el[e].coalitions_calculated <=> "calculate_coalitions" \in completed[e]
    /\ last.op = "results" =>
          /\ last.raised = NotCalculatedError <=> "calculate_results" \notin completed[last.on]
          /\ last.raised \in {NotCalculatedError, NoError}
          /\ last.raised = NoError => last.ret = el[last.on].results
    /\ last.op = "coalitions" =>
          /\ last.raised = NotCalculatedError <=> "calculate_coalitions" \notin completed[last.on]
          /\ last.raised \in {NotCalculatedError, NoError}
          /\ last.raised = NoError => last.ret = el[last.on].coalitions

\* `coalitions` has just raised on an instance whose results are ready
C1_Witness ==
    /\ last.op = "coalitions"
    /\ last.raised = NotCalculatedError
    /\ el[last.on].results_calculated
    /\ "calculate_results" \in completed[last.on]

\* C2: a calculate_coalitions call on an instance whose results are not
\* calculated raises NotCalculatedError and changes nothing: both flags stay
\* false, no coalition list is stored, and `coalitions` still raises.
C2_CoalitionsNeedResults ==
    [][\A e \in ElectionIds :
         (last'.op = "calculate_coalitions" /\ last'.on = e /\ ~el[e].results_calculated) =>
            /\ last'.raised = NotCalculatedError
            /\ el'[e] = el[e]
            /\ ~el'[e].results_calculated
            /\ ~el'[e].coalitions_calculated
            /\ el'[e].coalitions = <<>>
            /\ coalitions(el'[e]).raised = NotCalculatedError]_vars

\* calculate_coalitions has just failed on an instance without results
C2_Witness ==
    /\ last.op = "calculate_coalitions"
    /\ last.raised = NotCalculatedError
    /\ ~el[last.on].results_calculated
    /\ ~el[last.on].coalitions_calculated

\* C3: in every reachable state coalitions_calculated implies
\* results_calculated, for each instance: the instance is Uninitialized,
\* ResultsReady or CoalitionsReady.
C3_CoalitionsReadyImpliesResultsReady ==
    \A e \in ElectionIds : el[e].coalitions_calculated => el[e].results_calculated

\* one instance is CoalitionsReady and a call on it has just failed, while the
\* other has had a calculate_coalitions call rejected
C3_Witness ==
    /\ last.raised = DatabaseError
    /\ el[last.on].coalitions_calculated
    /\ \E e \in ElectionIds : ~el[e].results_calculated /\ ~el[e].coalitions_calculated


----------------------------------------------------------------------------
(* Properties of the First Past The Post allocation (SpecFPTP) *)

Fptp == el["fptp"]
Pr == el["pr"]

TotalSeats(res) == SumSeq(Values(res))

\* party column c has the largest vote value of row r
TopOfRow(r, c) == \A b \in 1..Len(columns) : table[r].votes[c] >= table[r].votes[b]

\* row r has more than one party with the largest vote value
TiedRow(r) == \E c, b \in 1..Len(columns) : c # b /\ TopOfRow(r, c) /\ TopOfRow(r, b)

C5_FptpSeatsSumToConstituencies ==
    Fptp.results_calculated => TotalSeats(Fptp.results) = Len(table)

----------------------------------------------------------------------------
(* Properties of the D'Hondt allocation (SpecDHondt, SpecRegion) *)

Totals == [c \in 1..Len(columns) |-> SumSeq([r \in 1..Len(table) |-> table[r].votes[c]])]

\* C6: the seats awarded by the D'Hondt allocation sum to the number of rows
\* of the matrix; in entire-electorate mode that is the number of rows of the
\* unfiltered table, so the results total equals the number of constituencies.
C6_DHondtSeatsSumToRows ==
    Pr.results_calculated => TotalSeats(Pr.results) = Len(table)

\* results over a table of PrSeats rows in which two parties have equal totals
C6_Witness ==
    /\ Pr.results_calculated
    /\ Len(table) = PrSeats
    /\ Totals[1] = Totals[2] /\ Totals[1] > 0
    /\ TotalSeats(Pr.results) = PrSeats

\* The reference highest-averages procedure: `remaining` times, award a seat to
\* the party maximising total / (awarded + 1), the earliest party among equals.
RefBeats(totals, awarded, p, q) ==
    \/ totals[p] * (awarded[q] + 1) > totals[q] * (awarded[p] + 1)
    \/ totals[p] * (awarded[q] + 1) = totals[q] * (awarded[p] + 1) /\ p < q

RECURSIVE HighestAverages(_, _, _)
HighestAverages(totals, awarded, remaining) ==
    IF remaining = 0 THEN awarded
    ELSE LET winner == CHOOSE p \in 1..Len(totals) :
                           \A q \in 1..Len(totals) : q # p => RefBeats(totals, awarded, p, q)
         IN  HighestAverages(totals, [awarded EXCEPT ![winner] = @ + 1], remaining - 1)

\* C7: the heap-based allocation gives every party the seat count of the
\* reference highest-averages procedure with ties going to the earliest party.
C7_DHondtMatchesHighestAverages ==
    Pr.results_calculated =>
        LET ref == HighestAverages(Totals, [c \in 1..Len(columns) |-> 0], Len(table))
        IN  /\ Keys(Pr.results) = Range(columns)
            /\ \A c \in 1..Len(columns) : Get(Pr.results, columns[c]) = ref[c]

\* results where a later seat was decided between equal quotients of parties
\* with different totals
C7_Witness ==
    /\ Pr.results_calculated
    /\ Len(table) = 3
    /\ Totals[2] = 2 * Totals[1] /\ Totals[1] > Totals[3] /\ Totals[3] > 0
    /\ Get(Pr.results, columns[2]) = 2
    /\ Get(Pr.results, columns[1]) = 1

\* C8: when some party has a nonzero vote total, no party with a zero vote
\* total is awarded a seat.
C8_NoSeatForZeroVotes ==
    Pr.results_calculated =>
        ((\E c \in 1..Len(columns) : Totals[c] > 0) =>
            \A c \in 1..Len(columns) : Totals[c] = 0 => Get(Pr.results, columns[c]) = 0)

\* results where the first party has no votes, one party has some, and there
\* are more seats than parties with votes
C8_Witness ==
    /\ Pr.results_calculated
    /\ Len(table) = PrSeats
    /\ Totals[1] = 0 /\ Totals[2] = 0 /\ Totals[3] = 1
    /\ Get(Pr.results, columns[3]) = PrSeats

\* the seats the D'Hondt allocation gives party p in one region, with the
\* region's own row count as seat total; 0 for a party the region does not list
SeatsInRegion(region, p) ==
    LET data == get_vote_data(region, Pr.ignore_other)
    IN  Get(compute_seats_by_pr(data.parties, data.votes), p)

RECURSIVE SumOverRegions(_, _)
SumOverRegions(regions, p) ==
    IF regions = {} THEN 0
    ELSE LET region == CHOOSE x \in regions : TRUE
         IN  SeatsInRegion(region, p) + SumOverRegions(regions \ {region}, p)

\* C9: in by-region mode each party's seat count in the results (0 for a party
\* the results do not list) is the sum over all regions of get_regions of the
\* seats the D'Hondt allocation gives it in that region.
C9_ByRegionSumsRegions ==
    (Pr.results_calculated /\ Pr.pr_method = BY_REGION) =>
        \A c \in 1..Len(columns) :
            Get(Pr.results, columns[c]) = SumOverRegions(DistinctRegions, columns[c])

\* by-region results over two regions where one party wins a seat in both and
\* "Other" is not fetched
C9_Witness ==
    /\ Pr.results_calculated /\ Pr.pr_method = BY_REGION /\ Pr.ignore_other
    /\ DistinctRegions = Regions
    /\ Get(Pr.results, columns[1]) = 2
    /\ \A region \in Regions : SeatsInRegion(region, columns[1]) = 1

----------------------------------------------------------------------------
(* Properties of the coalition search (SpecCoalition) *)

CoalitionSeats(res, coalition) ==
    SumSeq([i \in 1..Len(coalition) |-> Get(res, coalition[i])])

\* C10: every emitted coalition has a combined seat count of at least
\* ceil((total_seats + 1) / 2), total_seats being the sum of the stored
\* results: strictly more than half of all seats.
C10_CoalitionsReachMajority ==
    Fptp.coalitions_calculated =>
        \A k \in 1..Len(Fptp.coalitions) :
            LET seats == CoalitionSeats(Fptp.results, Fptp.coalitions[k])
                total == TotalSeats(Fptp.results)
            IN  /\ 2 * seats >= total + 1
                /\ 2 * seats > total

\* several coalitions over an even seat total, one of them with exactly
\* total / 2 + 1 seats
C10_Witness ==
    /\ Fptp.coalitions_calculated
    /\ Len(Fptp.coalitions) >= 2
    /\ TotalSeats(Fptp.results) % 2 = 0
    /\ \E k \in 1..Len(Fptp.coalitions) :
          2 * CoalitionSeats(Fptp.results, Fptp.coalitions[k]) = TotalSeats(Fptp.results) + 2


\* the parties of a coalition, as a set
Members(coalition) == Range(coalition)

\* C11: every emitted coalition contains at most maximum_coalition_size
\* parties and contains no party twice.
C11_CoalitionsWithinCapNoDuplicates ==
    Fptp.coalitions_calculated =>
        \A k \in 1..Len(Fptp.coalitions) :
            /\ Len(Fptp.coalitions[k]) <= Fptp.maximum_coalition_size
            /\ Cardinality(Members(Fptp.coalitions[k])) = Len(Fptp.coalitions[k])
            /\ Members(Fptp.coalitions[k]) \subseteq Keys(Fptp.results)

\* a coalition of exactly maximum_coalition_size parties was emitted, with
\* more parties holding seats than the cap allows
C11_Witness ==
    /\ Fptp.coalitions_calculated
    /\ Fptp.maximum_coalition_size = 2
    /\ \A i \in 1..Len(Fptp.results) : Fptp.results[i].seats > 0
    /\ \E k \in 1..Len(Fptp.coalitions) : Len(Fptp.coalitions[k]) = 2


\* the seats a set of parties holds together
RECURSIVE SeatsOfSet(_, _)
SeatsOfSet(res, S) ==
    IF S = {} THEN 0
    ELSE LET p == CHOOSE x \in S : TRUE
         IN  Get(res, p) + SeatsOfSet(res, S \ {p})

\* a strict majority: more than half of all seats
ReachesMajority(res, S) == 2 * SeatsOfSet(res, S) >= TotalSeats(res) + 1

\* a winning set no party of which can be left out
MinimalWinning(res, S) ==
    /\ ReachesMajority(res, S)
    /\ \A p \in S : ~ReachesMajority(res, S \ {p})

\* C12: every set of at most maximum_coalition_size parties that reaches the
\* majority threshold and from which no party can be removed without falling
\* below it appears in the emitted list exactly once.
C12_EveryMinimalWinningSetEmittedOnce ==
    Fptp.coalitions_calculated =>
        \A S \in SUBSET Keys(Fptp.results) :
            (Cardinality(S) <= Fptp.maximum_coalition_size /\ MinimalWinning(Fptp.results, S))
                => Cardinality({k \in 1..Len(Fptp.coalitions) :
                                    Members(Fptp.coalitions[k]) = S}) = 1

\* a minimal winning set of exactly three parties exists next to one of two
C12_Witness ==
    /\ Fptp.coalitions_calculated
    /\ Fptp.maximum_coalition_size = 3
    /\ \E S, T \in SUBSET Keys(Fptp.results) :
            /\ Cardinality(S) = 3 /\ MinimalWinning(Fptp.results, S)
            /\ Cardinality(T) = 2 /\ MinimalWinning(Fptp.results, T)
    /\ Len(Fptp.coalitions) >= 2

\* C13: every emitted coalition is minimal: removing any single member leaves
\* a set whose seats are below the majority threshold.
C13_EmittedCoalitionsAreMinimal ==
    Fptp.coalitions_calculated =>
        \A k \in 1..Len(Fptp.coalitions) :
            \A p \in Members(Fptp.coalitions[k]) :
                ~ReachesMajority(Fptp.results, Members(Fptp.coalitions[k]) \ {p})

\* a three-party coalition was emitted whose parties hold different numbers
\* of seats
C13_Witness ==
    /\ Fptp.coalitions_calculated
    /\ \E k \in 1..Len(Fptp.coalitions) :
            /\ Len(Fptp.coalitions[k]) = 3
            /\ \E p, q \in Members(Fptp.coalitions[k]) :
                    Get(Fptp.results, p) > Get(Fptp.results, q)

\* some coalition of the list contains every party of another one and more
HasSupersetPair(coalitions_list) ==
    \E j, k \in 1..Len(coalitions_list) :
        /\ Members(coalitions_list[k]) \subseteq Members(coalitions_list[j])
        /\ Members(coalitions_list[k]) # Members(coalitions_list[j])

\* the results every vector of seats of InitCoalition leads to
SeatVectors == {s \in [1..Len(FourParties) -> 0..MaxSeats] : \E c \in DOMAIN s : s[c] > 0}

\* C14 as the specification states it: there is a results mapping and a cap
\* for which the search emits a coalition and a proper superset of it.
C14_SupersetPairCanBeEmitted ==
    \E seats \in SeatVectors, cap \in 1..MaxCap :
        HasSupersetPair(find_coalitions(sort_results(DictZip(columns, seats)), cap))

\* C14: the emitted list never contains a coalition whose party set is a
\* proper superset of the party set of another emitted coalition.
C14_NoSupersetPairEmitted ==
    Fptp.coalitions_calculated => ~HasSupersetPair(Fptp.coalitions)

\* two coalitions that share a party were emitted, one larger than the other
C14_Witness ==
    /\ Fptp.coalitions_calculated
    /\ \E j, k \in 1..Len(Fptp.coalitions) :
            /\ Len(Fptp.coalitions[j]) > Len(Fptp.coalitions[k])
            /\ Members(Fptp.coalitions[j]) \cap Members(Fptp.coalitions[k]) # {}

\* C15: no two emitted coalitions consist of the same set of parties.
C15_NoCoalitionEmittedTwice ==
    Fptp.coalitions_calculated =>
        \A j, k \in 1..Len(Fptp.coalitions) :
            Members(Fptp.coalitions[j]) = Members(Fptp.coalitions[k]) => j = k

\* three or more coalitions were emitted, among parties tied on seats
C15_Witness ==
    /\ Fptp.coalitions_calculated
    /\ Len(Fptp.coalitions) >= 3
    /\ \E i, j \in 1..Len(Fptp.results) :
            i # j /\ Fptp.results[i].seats = Fptp.results[j].seats /\ Fptp.results[i].seats > 0


\* party p comes before party q when the parties are ordered by descending
\* seats, equal counts in the order of the results mapping
ComesBefore(res, p, q) ==
    \/ Get(res, p) > Get(res, q)
    \/ Get(res, p) = Get(res, q) /\ Lookup(res, p) < Lookup(res, q)

\* the position of a party in that ordering
Position(res, p) == 1 + Cardinality({q \in Keys(res) : ComesBefore(res, q, p)})

\* the positions of a coalition's parties, in the order the coalition lists them
Positions(res, coalition) == [i \in 1..Len(coalition) |-> Position(res, coalition[i])]

\* lexicographic order of two sequences of positions
LexLess(a, b) ==
    \/ \E i \in 1..Len(a) :
            /\ i <= Len(b)
            /\ a[i] < b[i]
            /\ \A j \in 1..(i - 1) : a[j] = b[j]
    \/ Len(a) < Len(b) /\ \A j \in 1..Len(a) : a[j] = b[j]

\* the election of test_coalitions_typical_election: 1, 1, 3 and 4 seats
TypicalElection ==
    /\ columns = FourParties
    /\ Fptp.maximum_coalition_size = 3
    /\ \A c \in 1..4 : Get(Fptp.results, FourParties[c]) = <<1, 1, 3, 4>>[c]

\* C16: with the parties ordered by descending seats (equal counts in the
\* order of the results mapping), every coalition lists its parties in that
\* order, and the coalitions follow one another in the lexicographic order
\* of their position sequences; seats 1, 1, 3, 4 under a cap of three give
\* [4,3], [4,1], [4,2], [3,1,2].
C16_CoalitionsInDiscoveryOrder ==
    Fptp.coalitions_calculated =>
        /\ \A k \in 1..Len(Fptp.coalitions) :
                LET pos == Positions(Fptp.results, Fptp.coalitions[k])
                IN  \A i \in 1..(Len(pos) - 1) : pos[i] < pos[i + 1]
        /\ \A k \in 1..(Len(Fptp.coalitions) - 1) :
                LexLess(Positions(Fptp.results, Fptp.coalitions[k]),
                        Positions(Fptp.results, Fptp.coalitions[k + 1]))
        /\ TypicalElection =>
                Fptp.coalitions = << <<"Party4", "Party3">>, <<"Party4", "Party1">>,
                                     <<"Party4", "Party2">>, <<"Party3", "Party1", "Party2">> >>

\* the typical election was searched and gave four coalitions
C16_Witness ==
    /\ Fptp.coalitions_calculated
    /\ TypicalElection
    /\ Len(Fptp.coalitions) = 4

\* C17: when a single party alone reaches the majority threshold, the list of
\* coalitions is exactly one coalition holding only that party.
C17_SingleWinnerStandsAlone ==
    Fptp.coalitions_calculated =>
        \A p \in Keys(Fptp.results) :
            ReachesMajority(Fptp.results, {p}) => Fptp.coalitions = << <<p>> >>

\* one party holds a majority while two others hold seats, and more than one
\* party may join a coalition
C17_Witness ==
    /\ Fptp.coalitions_calculated
    /\ Fptp.maximum_coalition_size >= 2
    /\ \E p \in Keys(Fptp.results) : ReachesMajority(Fptp.results, {p})
    /\ Cardinality({p \in Keys(Fptp.results) : Get(Fptp.results, p) > 0}) >= 3

\* some set of at most cap parties reaches the majority threshold
SomeSetReaches(res, cap) ==
    \E S \in SUBSET Keys(res) : Cardinality(S) <= cap /\ ReachesMajority(res, S)

\* C18: calculate_coalitions stores the empty list, without an error, exactly
\* when no set of at most maximum_coalition_size parties reaches the majority
\* threshold, and the coalitions accessor then returns that empty list.
C18_EmptyListIffNoViableCoalition ==
    /\ Fptp.coalitions_calculated =>
            (Fptp.coalitions = <<>>
                <=> ~SomeSetReaches(Fptp.results, Fptp.maximum_coalition_size))
    /\ (last.op = "calculate_coalitions" /\ Fptp.results_calculated)
            => (last.raised = NoError /\ Fptp.coalitions_calculated)
    /\ (last.op = "coalitions" /\ Fptp.coalitions_calculated)
            => (last.raised = NoError /\ last.ret = Fptp.coalitions)

\* every party holds one seat, two may join, and the accessor returned the
\* empty list
C18_Witness ==
    /\ Fptp.coalitions_calculated
    /\ Fptp.maximum_coalition_size = 2
    /\ \A i \in 1..Len(Fptp.results) : Fptp.results[i].seats = 1
    /\ last.op = "coalitions"
    /\ last.raised = NoError
    /\ last.ret = <<>>


\* the seats the constituencies of the table give the party of column c
\* before any sorting: one for every row the column tops
SeatsBeforeSort(c) == Cardinality({r \in 1..Len(table) : TopOfRow(r, c)})

\* the place of a party in the mapping handed to sort_results
ColumnOf(party) == CHOOSE c \in 1..Len(columns) : columns[c] = party

\* C19: sort_results returns the same (party, seats) pairs, reordered by
\* descending seats, with "Other" last whatever its count and with equal
\* counts of other parties in their original relative order.
C19_SortResultsCanonicalAndStable ==
    Fptp.results_calculated =>
        /\ Len(Fptp.results) = Len(columns)
        /\ \A c \in 1..Len(columns) :
                \E i \in 1..Len(Fptp.results) :
                    Fptp.results[i] = [party |-> columns[c], seats |-> SeatsBeforeSort(c)]
        /\ \A i, j \in 1..Len(Fptp.results) :
                i < j =>
                    /\ Fptp.results[i].party # "Other"
                    /\ \/ Fptp.results[j].party = "Other"
                       \/ Fptp.results[i].seats > Fptp.results[j].seats
                       \/ /\ Fptp.results[i].seats = Fptp.results[j].seats
                          /\ ColumnOf(Fptp.results[i].party) < ColumnOf(Fptp.results[j].party)

\* "Other" holds more seats than any party and is listed last, behind two
\* parties tied on seats
C19_Witness ==
    /\ Fptp.results_calculated
    /\ columns = FourWithOther
    /\ Fptp.results[4].party = "Other"
    /\ \A i \in 1..3 : Fptp.results[4].seats > Fptp.results[i].seats
    /\ \E i \in 1..2 : Fptp.results[i].seats = Fptp.results[i + 1].seats
                        /\ Fptp.results[i].seats > 0

\* descending seats, "Other" last
CanonicalOrder(res) ==
    \A i, j \in 1..Len(res) :
        i < j =>
            /\ res[i].party # "Other"
            /\ res[j].party = "Other" \/ res[i].seats >= res[j].seats

\* C20: for every election, whatever order _calculate_results produced its
\* mapping in, the mapping the results accessor returns after
\* calculate_results is in canonical order.
C20_ResultsInCanonicalOrder ==
    \A e \in DOMAIN el :
        (last.op = "results" /\ last.on = e /\ last.raised = NoError)
            => CanonicalOrder(last.ret)


----------------------------------------------------------------------------
(* Properties of the data source (SpecData) *)

\* the last call was a get_vote_data none of whose queries failed
VoteDataReturned == last.op = "get_vote_data" /\ last.raised = NoError

\* C25: get_vote_data with a region that matches no constituency returns an
\* empty party list and an empty vote matrix and raises no error, although
\* the table has party columns.
C25_UnknownRegionGivesEmptyData ==
    (last.op = "get_vote_data" /\ last.args.region \notin DistinctRegions \cup {None}) =>
        /\ last.raised = NoError <=> \A i \in 1..Len(last.steps) : last.steps[i].raised = NoError
        /\ last.raised = NoError =>
              /\ last.ret.parties = <<>>
              /\ last.ret.votes = <<>>
              /\ Len(columns) > 0

\* a region was asked for that none of the three constituencies of the
\* table belongs to
C25_Witness ==
    /\ VoteDataReturned
    /\ last.args.region = "Does not exist"
    /\ DistinctRegions = Regions
    /\ Len(table) = 3
    /\ last.ret = [parties |-> <<>>, votes |-> <<>>]

\* the places of a party list that do not hold "Other"
NotOther(parties) ==
    SelectSeq2([i \in 1..Len(parties) |-> i], {i \in 1..Len(parties) : parties[i] # "Other"})

\* C26: get_vote_data with ignore_other=True returns what it returns with
\* ignore_other=False less the "Other" column, in the party list and in every
\* row of the matrix: the other columns keep their order and their names,
\* and without an "Other" column the two returns are equal.
C26_IgnoreOtherDropsOnlyOther ==
    (VoteDataReturned /\ last.args.ignore_other) =>
        LET full == get_vote_data(last.args.region, FALSE)
            keep == NotOther(full.parties)
        IN  /\ "Other" \notin Range(last.ret.parties)
            /\ last.ret.parties = [k \in 1..Len(keep) |-> full.parties[keep[k]]]
            /\ last.ret.votes = [r \in 1..Len(full.votes) |->
                                    [k \in 1..Len(keep) |-> full.votes[r][keep[k]]]]
            /\ "Other" \notin Range(columns) => last.ret = full

\* "Other" stands between two parties, holds the most votes of a row in
\* which the first party did not stand, and was dropped
C26_Witness ==
    /\ VoteDataReturned
    /\ last.args.ignore_other
    /\ last.args.region = "Region1"
    /\ columns = OtherInside
    /\ table = UncontestedTable
    /\ last.ret = [parties |-> <<"Party1", "Party2">>, votes |-> << <<0, 1>> >>]

\* C27: every query opens one connection and one cursor and closes both
\* before _execute_query returns, whether it succeeds or raises: no
\* connection or cursor is open between two calls.
C27_ConnectionsClosedAfterEveryQuery ==
    /\ open = NoneOpen
    /\ last.op \in {"get_elections", "get_regions", "get_vote_data"} =>
          \A i \in 1..Len(last.steps) :
              /\ last.steps[i].connects <= 1
              /\ last.steps[i].cursors = last.steps[i].connects
              /\ last.steps[i].conn_closes = last.steps[i].connects
              /\ last.steps[i].cursor_closes = last.steps[i].cursors
              /\ last.steps[i].raised = NoError => last.steps[i].connects = 1

\* the second query of a get_vote_data call raised after connecting
C27_Witness ==
    /\ last.op = "get_vote_data"
    /\ last.raised = DatabaseError
    /\ Len(last.steps) = 2
    /\ last.steps[2].connects = 1
    /\ last.steps[2].conn_closes = 1
    /\ open = NoneOpen


----------------------------------------------------------------------------
(* Properties of calls, their effects and their failures (Spec) *)

\* the results the subclass of instance e can compute from the table
PossibleResults(e) == {SubclassResults(el[e], regions) : regions \in RegionOrders(e)}

\* C21: calculate_all, called on an instance in any state, performs
\* calculate_results and then calculate_coalitions, each once and in that
\* order, and ends with both flags set, both accessors succeeding and the
\* stored coalitions those of the freshly stored results.
C21_CalculateAllRunsBothInOrder ==
    [][\A e \in ElectionIds :
         (last'.op = "calculate_all" /\ last'.on = e) =>
            /\ last'.raised \in {NoError, DatabaseError}
            /\ last'.raised = NoError =>
                  /\ last'.steps = <<"calculate_results", "calculate_coalitions">>
                  /\ el'[e].results_calculated
                  /\ el'[e].coalitions_calculated
                  /\ results(el'[e]).raised = NoError
                  /\ coalitions(el'[e]).raised = NoError
                  /\ el'[e].results \in PossibleResults(e)
                  /\ coalitions(el'[e]).ret =
                        find_coalitions(results(el'[e]).ret, el'[e].maximum_coalition_size)]_vars

\* calculate_all has completed on the by-region election and stored at
\* least two coalitions
C21_Witness ==
    /\ last.op = "calculate_all"
    /\ last.on = "pr"
    /\ last.raised = NoError
    /\ Pr.pr_method = BY_REGION
    /\ Len(Pr.coalitions) >= 2
    /\ completed["pr"] = {"calculate_results", "calculate_coalitions"}

\* C22: reading `results` or `coalitions` changes nothing of any election
\* (flags, stored values, completed calculations), computes nothing, and a
\* read of `results` that follows a successful read of `results` of the same
\* instance returns the same mapping.
C22_ReadsHaveNoSideEffect ==
    [][last'.op \in {"results", "coalitions"} =>
         /\ el' = el
         /\ completed' = completed
         /\ last'.steps = <<>>
         /\ (last'.op = "results" /\ last.op = "results" /\ last.on = last'.on
                /\ last.raised = NoError)
               => (last'.raised = NoError /\ last'.ret = last.ret)]_vars

\* `coalitions` was read, and raised, on an instance whose results are ready
\* and non-empty
C22_Witness ==
    /\ last.op = "coalitions"
    /\ last.raised = NotCalculatedError
    /\ el[last.on].results_calculated
    /\ el[last.on].results # <<>>
    /\ ~el[last.on].coalitions_calculated

\* C23: when the data source fails during calculate_results, the caller gets
\* the data source's error, nothing is stored, and the flags, results and
\* coalitions of the election are what they were before the call.
C23_FailedCalculationChangesNothing ==
    [][\A e \in ElectionIds :
         (last'.op = "calculate_results" /\ last'.on = e) =>
            /\ last'.raised \in {NoError, DatabaseError}
            /\ last'.raised = DatabaseError =>
                  /\ el' = el
                  /\ completed' = completed
                  /\ last'.steps = <<>>
                  /\ ~el[e].results_calculated =>
                        (el'[e].results = <<>> /\ results(el'[e]).raised = NotCalculatedError)]_vars

\* calculate_results has failed on an instance that has no results yet
C23_Witness ==
    /\ last.op = "calculate_results"
    /\ last.raised = DatabaseError
    /\ ~el[last.on].results_calculated
    /\ el[last.on].results = <<>>

\* C24: a call on one instance leaves the flags, results, coalitions and
\* completed calculations of the other unchanged, and whenever the record of
\* an instance changes, the results and coalitions it then stores depend on
\* the table and on its own parameters only, whatever calls the other
\* instance has had in between.
C24_InstancesShareNoState ==
    [][\A e \in ElectionIds :
         /\ last'.on # e => (el'[e] = el[e] /\ completed'[e] = completed[e])
         /\ (el'[e] # el[e] /\ el'[e].results_calculated) =>
               el'[e].results \in PossibleResults(e)
         /\ (el'[e] # el[e] /\ el'[e].coalitions_calculated) =>
               \E res \in PossibleResults(e) :
                   el'[e].coalitions = find_coalitions(res, el'[e].maximum_coalition_size)]_vars

\* both instances hold results, different ones, and only one holds coalitions
C24_Witness ==
    /\ Fptp.results_calculated /\ Pr.results_calculated
    /\ Fptp.results # Pr.results
    /\ Fptp.coalitions_calculated /\ ~Pr.coalitions_calculated
    /\ last.on = "pr"

----------------------------------------------------------------------------
(* Recomputation (SpecRecompute) *)

\* C28 as the specification states it: whenever the coalitions are
\* calculated, the stored list is the search output for the stored results.
C28_StoredCoalitionsMatchStoredResults ==
    Fptp.coalitions_calculated =>
        Fptp.coalitions = find_coalitions(Fptp.results, Fptp.maximum_coalition_size)

\* C28: when calculate_coalitions or calculate_all completes, the stored list
\* is the search output for the stored results; a calculate_results call
\* leaves the stored list and its flag as they were.
C28_CoalitionsFollowResultsOnlyWhenSearched ==
    [][/\ (last'.op \in {"calculate_coalitions", "calculate_all"} /\ last'.raised = NoError) =>
             /\ Fptp'.coalitions_calculated
             /\ Fptp'.coalitions = find_coalitions(Fptp'.results, Fptp'.maximum_coalition_size)
       /\ last'.op = "calculate_results" =>
             /\ Fptp'.coalitions = Fptp.coalitions
             /\ Fptp'.coalitions_calculated = Fptp.coalitions_calculated]_vars

\* calculate_results has replaced the results, and the stored coalitions are
\* not those of the results now stored
C28_Witness ==
    /\ last.op = "calculate_results"
    /\ last.raised = NoError
    /\ Fptp.coalitions_calculated
    /\ Fptp.coalitions # find_coalitions(Fptp.results, Fptp.maximum_coalition_size)

----------------------------------------------------------------------------
(* Further properties of the D'Hondt results (SpecRegion, SpecDHondt) *)

\* the party list get_vote_data returns for the whole table
FetchedParties == {p \in Range(columns) : ~(Pr.ignore_other /\ p = "Other")}

\* C29: in by-region mode the results have a key for exactly the parties
\* whose seats summed over all regions are positive; in entire-electorate
\* mode every party of the fetched party list is a key, with or without seats.
C29_PrResultKeys ==
    Pr.results_calculated =>
        /\ Cardinality(Keys(Pr.results)) = Len(Pr.results)
        /\ Pr.pr_method = BY_REGION =>
              /\ Keys(Pr.results) =
                    {p \in FetchedParties : SumOverRegions(DistinctRegions, p) > 0}
              /\ \A i \in 1..Len(Pr.results) : Pr.results[i].seats > 0
        /\ Pr.pr_method = ENTIRE_ELECTORATE => Keys(Pr.results) = FetchedParties

\* by-region results over two regions that leave out a party that was
\* fetched and won no seat in either
C29_Witness ==
    /\ Pr.results_calculated
    /\ Pr.pr_method = BY_REGION
    /\ ~Pr.ignore_other
    /\ DistinctRegions = Regions
    /\ Len(Pr.results) = 2
    /\ \E p \in FetchedParties : p \notin Keys(Pr.results)

\* C30: within one allocation, a party with strictly more votes in total
\* than another never receives fewer seats than it.
C30_DHondtMonotoneInVotes ==
    Pr.results_calculated =>
        \A a, b \in 1..Len(columns) :
            Totals[a] > Totals[b] => Get(Pr.results, columns[a]) >= Get(Pr.results, columns[b])

\* three different totals, the largest in the last column, and more seats
\* for the last party than for the first
C30_Witness ==
    /\ Pr.results_calculated
    /\ Totals[3] > Totals[2] /\ Totals[2] > Totals[1] /\ Totals[1] > 0
    /\ Get(Pr.results, columns[3]) > Get(Pr.results, columns[1])
    /\ Get(Pr.results, columns[1]) > 0


====
